---- MODULE Spec2Model ----
(***************************************************************************)
(* Request lifecycle and graceful shutdown of the hardened web API.        *)
(*                                                                         *)
(* The programs of the repository are modelled by these specifications:    *)
(*   Spec       the robust server (src/server.js): resource tracker,       *)
(*              request pipeline with the shutdown-aware middleware, and   *)
(*              gracefulShutdown with its forced-shutdown timer;           *)
(*   SpecLive   the same with the runtime's guarantee that an armed timer  *)
(*              expires;                                                   *)
(*   SpecApp    the secure Express application (src/src/app.js): rate      *)
(*              limiter, CORS, routes;                                     *)
(*   SpecPipe   the middleware stack of that application, stage by stage;  *)
(*   SpecHttps  the HTTPS-capable entry point (src/src/server.js) and its  *)
(*              variant without the shutdown guard;                        *)
(*   SpecErr    the error formatters of both applications;                 *)
(*   SpecVal    the validated routes of the robust server.                 *)
(***************************************************************************)
EXTENDS Integers, Sequences, FiniteSets, TLC

(***************************************************************************)
(* Bounds                                                                  *)
(***************************************************************************)
\* number of sockets the listener may accept in one run
MaxSockets == 1
\* number of timer handles that may be tracked in one run
MaxTimers == 1
\* number of shutdown triggers delivered in one run
MaxTriggers == 2

Sockets == 1..MaxSockets
Timers == 1..MaxTimers

\* process.on(...) handlers that call gracefulShutdown (src/server.js)
Signals == {"SIGTERM", "SIGINT", "SIGQUIT"}
Faults == {"uncaughtException", "unhandledRejection"}
Triggers == Signals \cup Faults

\* requests the robust server is driven with: method and path, and the
\* kind of body the client sends
Routes == {"GET /health", "POST /api/users", "GET /nope"}
Bodies == {"none", "valid", "invalid", "malformed"}
NoReq == [route |-> "-", body |-> "-", entered |-> FALSE]
NoResp == [route |-> "-", body |-> "-", status |-> 0, connClose |-> FALSE, statusField |-> "-",
           validatorsRan |-> FALSE, handlerRan |-> FALSE, entered |-> FALSE]

\* the drain steps of gracefulShutdown in program order
DrainOrder == <<"setFlag", "stopListener", "listenerStopped", "destroyConnections",
                "clearTimers", "cleanupStart", "cleanupDone", "exit">>

VARIABLES
  \* ---- robust server (src/server.js) ----
  server,              \* the listener: "null" | "created" | "listening" | "closing" | "closed"
  sock,                \* state of each socket: "none" | "idle" | "active" | "destroyed" | "closed"
  connections,         \* resources.connections
  timers,              \* resources.timers
  isShuttingDown,      \* resources.isShuttingDown
  pc,                  \* position of gracefulShutdown: "running" | "awaitClose" | "awaitCleanup" | "exited"
  closeErr,            \* the pending server.close callback will carry an error
  forceShutdownTimer,  \* "none" | "armed" | "cleared" | "fired"
  exitCode,            \* -1 while the process runs, then the code given to process.exit
  exitReason,          \* why the drain ended: "-" | "completed" | "closeError" | "cleanupRejected" | "timeout"
  steps,               \* drain steps performed so far, in order
  closedCount,         \* resources.connections.size printed by Step 2 (-1 before)
  clearedCount,        \* resources.timers.size printed by Step 3 (-1 before)
  cleanupCalls,        \* number of invocations of resources.cleanup
  triggersSeen,        \* number of triggers delivered
  trigServer,          \* state of the listener when the drain began ("-" before)
  trigConns,           \* sockets open and tracked when the drain began
  selfClosed,          \* sockets that ended by themselves (peer close, idle timeout)
  reqs,                \* request whose body is being read, per socket
  lastResp,            \* the response sent last
  \* ---- secure Express application (src/src/app.js) ----
  now,                 \* Date.now(), in units of one tick
  hits,                \* totalHits of each client key in the rate limiter's store
  resetTime,           \* resetTime of each client key in the rate limiter's store
  rlLog,               \* the requests the rate limiter counted, in order
  appResp,             \* the response the application sent last
  \* ---- HTTPS-capable entry point (src/src/server.js) ----
  isProduction,        \* NODE_ENV === 'production'
  httpsServer,         \* "starting" | "listening" | "closing"
  httpsConns,          \* number of open connections of the listener
  httpsShuttingDown,   \* the entry point's isShuttingDown
  shutdownTimer,       \* "none" | "armed" | "cleared" | "fired"
  httpsCloseErr,       \* the pending server.close callback will carry an error
  httpsExit,           \* -1 while the process runs, then the code given to process.exit
  httpsTriggers,       \* number of triggers delivered
  httpsLast,           \* the trigger delivered last ("-" before the first)
  hasGuard,            \* the entry point's gracefulShutdown tests isShuttingDown first
  closeCalls,          \* number of calls of server.close
  timersArmed,         \* number of forced-exit timers armed
  \* ---- error formatters (src/src/utils/errorHandler.js, src/server.js) ----
  failure,             \* the failure object handed to an error formatter last
  envelope,            \* the error response the formatter built from it
  \* ---- validated routes of the robust server (src/server.js) ----
  valReq,              \* the request handed to a validated route last
  valResp,             \* the response of the route to it
  \* ---- middleware stack of the secure application (src/src/app.js) ----
  pipeReq,             \* the request dispatched through the stack last
  stages,              \* the middleware that ran for it, in order
  pipeResp,            \* the response it was answered with
  responses            \* number of responses sent for it

robustVars == <<server, sock, connections, timers, isShuttingDown, pc, closeErr,
                forceShutdownTimer, exitCode, exitReason, steps, closedCount, clearedCount,
                cleanupCalls, triggersSeen, trigServer, trigConns, selfClosed,
                reqs, lastResp>>

appVars == <<now, hits, resetTime, rlLog, appResp>>

httpsVars == <<isProduction, httpsServer, httpsConns, httpsShuttingDown, shutdownTimer,
               httpsCloseErr, httpsExit, httpsTriggers, httpsLast,
               hasGuard, closeCalls, timersArmed>>

errVars == <<failure, envelope>>

valVars == <<valReq, valResp>>

pipeVars == <<pipeReq, stages, pipeResp, responses>>

vars == <<robustVars, appVars, httpsVars, errVars, valVars, pipeVars>>

(***************************************************************************)
(* Robust server: state after the module is loaded                         *)
(***************************************************************************)
InitRobust ==
  /\ server = "null"
  /\ sock = [s \in Sockets |-> "none"]
  /\ connections = {}
  /\ timers = {}
  /\ isShuttingDown = FALSE
  /\ pc = "running"
  /\ closeErr = FALSE
  /\ forceShutdownTimer = "none"
  /\ exitCode = -1
  /\ exitReason = "-"
  /\ steps = <<>>
  /\ closedCount = -1
  /\ clearedCount = -1
  /\ cleanupCalls = 0
  /\ triggersSeen = 0
  /\ trigServer = "-"
  /\ trigConns = {}
  /\ selfClosed = {}
  /\ reqs = [s \in Sockets |-> NoReq]
  /\ lastResp = NoResp

\* the application's clients, by req.ip
Clients == {"10.0.0.1", "10.0.0.2"}
NoAppResp == [client |-> "-", path |-> "-", origin |-> "-", status |-> 0, corsOk |-> FALSE,
              acao |-> "none", secHeaders |-> FALSE, refId |-> FALSE]

\* secure Express application: state after the module is loaded
InitApp ==
  /\ now = 0
  /\ hits = [k \in Clients |-> 0]
  /\ resetTime = [k \in Clients |-> 0]
  /\ rlLog = <<>>
  /\ appResp = NoAppResp

\* HTTPS-capable entry point: state after the module is loaded, in the
\* environment mode given, running the gracefulShutdown with the guard or
\* the one without
InitHttps(production, guard) ==
  /\ isProduction = production
  /\ hasGuard = guard
  /\ closeCalls = 0
  /\ timersArmed = 0
  /\ httpsServer = "starting"
  /\ httpsConns = 0
  /\ httpsShuttingDown = FALSE
  /\ shutdownTimer = "none"
  /\ httpsCloseErr = FALSE
  /\ httpsExit = -1
  /\ httpsTriggers = 0
  /\ httpsLast = "-"

\* a failure object as the formatters read it: statusCode and status are 0
\* when the property is absent, name is "absent" when the object has none,
\* jsonSyntax says it is a SyntaxError whose message mentions JSON, details is
\* the length of its own details list (0: none) and violations the length of
\* the details of a Joi error nested under .error
NoFailure ==
  [from |-> "-", statusCode |-> 0, status |-> 0, name |-> "absent", isJoi |-> FALSE,
   jsonSyntax |-> FALSE, hasMessage |-> FALSE, hasStack |-> FALSE,
   isOperational |-> FALSE, details |-> 0, violations |-> 0]

NoEnvelope ==
  [by |-> "-", env |-> "-", statusCode |-> 0, message |-> "-", ownMessage |-> FALSE,
   ownName |-> FALSE, stack |-> FALSE, details |-> "absent", detailCount |-> 0,
   refId |-> FALSE]

\* a request to a validated route: NODE_ENV of the process, the route, the
\* body fields, the id parameter and the query values; a query value holds
\* the text supplied first and, in more, the texts supplied for the same
\* name after it
NoText == <<>>
NoQuery == [page |-> [present |-> FALSE, text |-> NoText, more |-> <<>>],
            limit |-> [present |-> FALSE, text |-> NoText, more |-> <<>>]]
NoBody == [username |-> NoText, email |-> NoText, password |-> NoText]
NoValReq == [env |-> "development", route |-> "-", body |-> NoBody, id |-> NoText,
             query |-> NoQuery]
\* a value of req.query as the handler reads it: a scalar (array FALSE, one
\* item) or an array of items; no item when the parameter is absent
NoValue == [array |-> FALSE, items |-> <<>>]
\* Number.NaN
NotANumber == "NaN"
\* the response: status, the error title, the detail list, whether the route
\* handler ran, the numbers it echoes, and for GET /api/items the ids of
\* data and the pagination fields
NoValResp == [status |-> 0, error |-> "-", details |-> <<>>, handlerRan |-> FALSE,
              dataId |-> [neg |-> FALSE, digits |-> <<>>],
              currentPage |-> NoValue,
              limit |-> NoValue,
              ids |-> <<>>, totalPages |-> 0,
              hasNextPage |-> FALSE, hasPreviousPage |-> FALSE]

\* no failure has been formatted yet
InitErr ==
  /\ failure = NoFailure
  /\ envelope = NoEnvelope

\* no validated route has been requested yet
InitVal ==
  /\ valReq = NoValReq
  /\ valResp = NoValResp

\* the request and the response of the secure application's stack, before
\* the first request
NoPipeReq == [env |-> "-", client |-> "-", method |-> "-", path |-> "-", origin |-> "-",
              body |-> "-"]
NoPipeResp == [by |-> "-", status |-> 0, keys |-> {}, failedAt |-> "-"]

\* no request has been dispatched yet
InitPipe ==
  /\ pipeReq = NoPipeReq
  /\ stages = <<>>
  /\ pipeResp = NoPipeResp
  /\ responses = 0

Init == InitRobust /\ InitApp /\ InitHttps(FALSE, TRUE) /\ InitErr /\ InitVal /\ InitPipe

Running == exitCode = -1

(***************************************************************************)
(* Resource tracker                                                        *)
(***************************************************************************)
\* resources.addTimer(timer)
addTimer(t) ==
  /\ Running
  /\ t \notin timers
  /\ timers' = timers \cup {t}
  /\ UNCHANGED <<server, sock, connections, isShuttingDown, pc, closeErr,
                 forceShutdownTimer, exitCode, exitReason, steps, closedCount, clearedCount,
                 cleanupCalls, triggersSeen, trigServer, trigConns, selfClosed,
                 reqs, lastResp, appVars, httpsVars, errVars, valVars, pipeVars>>

\* resources.removeTimer(timer)
removeTimer(t) ==
  /\ Running
  /\ t \in timers
  /\ timers' = timers \ {t}
  /\ UNCHANGED <<server, sock, connections, isShuttingDown, pc, closeErr,
                 forceShutdownTimer, exitCode, exitReason, steps, closedCount, clearedCount,
                 cleanupCalls, triggersSeen, trigServer, trigConns, selfClosed,
                 reqs, lastResp, appVars, httpsVars, errVars, valVars, pipeVars>>

\* a clearAllTimers that cancels the timers and keeps them in the set
clearAllTimersKeep(ts) == ts

\* resources.clearAllTimers(): the tracked set after the call
clearAllTimers(ts) == {}

(***************************************************************************)
(* Listener and connection tracking                                        *)
(***************************************************************************)
\* createServer() as called by startServer(): the listener exists, listen()
\* has been issued and has not completed yet
createServer ==
  /\ Running
  /\ server = "null"
  /\ server' = "created"
  /\ UNCHANGED <<sock, connections, timers, isShuttingDown, pc, closeErr,
                 forceShutdownTimer, exitCode, exitReason, steps, closedCount, clearedCount,
                 cleanupCalls, triggersSeen, trigServer, trigConns, selfClosed,
                 reqs, lastResp, appVars, httpsVars, errVars, valVars, pipeVars>>

\* the callback of server.listen: the listener accepts connections
startServer ==
  /\ Running
  /\ server = "created"
  /\ server' = "listening"
  /\ UNCHANGED <<sock, connections, timers, isShuttingDown, pc, closeErr,
                 forceShutdownTimer, exitCode, exitReason, steps, closedCount, clearedCount,
                 cleanupCalls, triggersSeen, trigServer, trigConns, selfClosed,
                 reqs, lastResp, appVars, httpsVars, errVars, valVars, pipeVars>>

\* server.on('connection'): track the accepted socket
onConnection(s) ==
  /\ Running
  /\ server = "listening"
  /\ sock[s] = "none"
  /\ sock' = [sock EXCEPT ![s] = "idle"]
  /\ connections' = connections \cup {s}
  /\ UNCHANGED <<server, timers, isShuttingDown, pc, closeErr,
                 forceShutdownTimer, exitCode, exitReason, steps, closedCount, clearedCount,
                 cleanupCalls, triggersSeen, trigServer, trigConns, selfClosed,
                 reqs, lastResp, appVars, httpsVars, errVars, valVars, pipeVars>>

\* a socket ends without the drain destroying it (the peer closes, or the
\* keep-alive timeout passes); its 'close' event is emitted later
socketEnds(s) ==
  /\ Running
  /\ sock[s] \in {"idle", "active"}
  /\ sock' = [sock EXCEPT ![s] = "destroyed"]
  /\ reqs' = [reqs EXCEPT ![s] = NoReq]
  /\ selfClosed' = selfClosed \cup {s}
  /\ UNCHANGED <<server, connections, timers, isShuttingDown, pc, closeErr,
                 forceShutdownTimer, exitCode, exitReason, steps, closedCount, clearedCount,
                 cleanupCalls, triggersSeen, trigServer, trigConns, lastResp, appVars, httpsVars, errVars, valVars, pipeVars>>

\* a 'close' handler that leaves the socket in the set
onSocketCloseKeep(s) ==
  /\ Running
  /\ sock[s] = "destroyed"
  /\ sock' = [sock EXCEPT ![s] = "closed"]
  /\ UNCHANGED <<server, connections, timers, isShuttingDown, pc, closeErr,
                 forceShutdownTimer, exitCode, exitReason, steps, closedCount, clearedCount,
                 cleanupCalls, triggersSeen, trigServer, trigConns, selfClosed,
                 reqs, lastResp, appVars, httpsVars, errVars, valVars, pipeVars>>

\* socket.on('close'): untrack the socket
onSocketClose(s) ==
  /\ Running
  /\ sock[s] = "destroyed"
  /\ sock' = [sock EXCEPT ![s] = "closed"]
  /\ connections' = connections \ {s}
  /\ UNCHANGED <<server, timers, isShuttingDown, pc, closeErr,
                 forceShutdownTimer, exitCode, exitReason, steps, closedCount, clearedCount,
                 cleanupCalls, triggersSeen, trigServer, trigConns, selfClosed,
                 reqs, lastResp, appVars, httpsVars, errVars, valVars, pipeVars>>

(***************************************************************************)
(* Request pipeline of the robust server                                   *)
(***************************************************************************)
\* bodies a client may send with each request
BodiesOf(route) ==
  IF route = "POST /api/users" THEN {"valid", "invalid", "malformed"}
                               ELSE {"none", "malformed"}

\* express.json(): the failure it forwards, 0 when it passes the request on
jsonParser(body) == IF body = "malformed" THEN 400 ELSE 0

\* the global error handling middleware: err.statusCode || err.status || 500
errorMiddleware(route, body, errStatus, entered) ==
  [route |-> route, body |-> body, status |-> IF errStatus # 0 THEN errStatus ELSE 500,
   connClose |-> FALSE, statusField |-> "-",
   validatorsRan |-> FALSE, handlerRan |-> FALSE, entered |-> entered]

\* the shutdown-aware middleware: its 503 answer
shutdownAware(route, body, entered) ==
  [route |-> route, body |-> body, status |-> 503, connClose |-> TRUE, statusField |-> "-",
   validatorsRan |-> FALSE, handlerRan |-> FALSE, entered |-> entered]

\* app.get('/health'): status and code follow resources.isShuttingDown
healthHandler(route, body, flag, entered) ==
  [route |-> route, body |-> body, status |-> IF flag THEN 503 ELSE 200, connClose |-> FALSE,
   statusField |-> IF flag THEN "shutting_down" ELSE "healthy",
   validatorsRan |-> FALSE, handlerRan |-> TRUE, entered |-> entered]

\* app.post('/api/users'): validateUserRegistration, handleValidationErrors,
\* then the handler
usersRoute(route, body, entered) ==
  [route |-> route, body |-> body, status |-> IF body = "valid" THEN 201 ELSE 400,
   connClose |-> FALSE, statusField |-> "-",
   validatorsRan |-> TRUE, handlerRan |-> (body = "valid"), entered |-> entered]

\* the catch-all handler for undefined routes
notFound(route, body, entered) ==
  [route |-> route, body |-> body, status |-> 404, connClose |-> FALSE, statusField |-> "-",
   validatorsRan |-> FALSE, handlerRan |-> FALSE, entered |-> entered]

\* the middleware stack in registration order: body parsers, logging,
\* shutdown-aware middleware, routes, 404 handler, error middleware.
\* flag is resources.isShuttingDown when the stack runs; entered is its value
\* when the request entered the pipeline.
pipeline(route, body, flag, entered) ==
  IF jsonParser(body) # 0 THEN errorMiddleware(route, body, jsonParser(body), entered)
  ELSE IF flag THEN shutdownAware(route, body, entered)
  ELSE IF route = "GET /health" THEN healthHandler(route, body, flag, entered)
  ELSE IF route = "POST /api/users" THEN usersRoute(route, body, entered)
  ELSE notFound(route, body, entered)

\* a request without a body arrives on a kept-alive socket and is answered in
\* the same turn of the event loop
requestNoBody(s, route) ==
  /\ Running
  /\ sock[s] = "idle"
  /\ lastResp' = pipeline(route, "none", isShuttingDown, isShuttingDown)
  /\ UNCHANGED <<server, sock, connections, timers, isShuttingDown, pc, closeErr,
                 forceShutdownTimer, exitCode, exitReason, steps, closedCount, clearedCount,
                 cleanupCalls, triggersSeen, trigServer, trigConns, selfClosed,
                 reqs, appVars, httpsVars, errVars, valVars, pipeVars>>

\* the head of a request with a body arrives: express.json() starts reading
\* the body and the socket has a request in flight
requestHead(s, route, body) ==
  /\ Running
  /\ sock[s] = "idle"
  /\ body \in BodiesOf(route) \ {"none"}
  /\ sock' = [sock EXCEPT ![s] = "active"]
  /\ reqs' = [reqs EXCEPT ![s] = [route |-> route, body |-> body,
                                  entered |-> isShuttingDown]]
  /\ UNCHANGED <<server, connections, timers, isShuttingDown, pc, closeErr,
                 forceShutdownTimer, exitCode, exitReason, steps, closedCount, clearedCount,
                 cleanupCalls, triggersSeen, trigServer, trigConns, selfClosed,
                 lastResp, appVars, httpsVars, errVars, valVars, pipeVars>>

\* the rest of the stack with an error middleware that gives up the process
\* when it formats a failure
requestBodyExitOnError(s) ==
  /\ Running
  /\ sock[s] = "active"
  /\ lastResp' = pipeline(reqs[s].route, reqs[s].body, isShuttingDown, reqs[s].entered)
  /\ sock' = [sock EXCEPT ![s] = "idle"]
  /\ reqs' = [reqs EXCEPT ![s] = NoReq]
  /\ exitCode' = IF jsonParser(reqs[s].body) # 0 THEN 1 ELSE exitCode
  /\ UNCHANGED <<server, connections, timers, isShuttingDown, pc, closeErr,
                 forceShutdownTimer, exitReason, steps, closedCount, clearedCount,
                 cleanupCalls, triggersSeen, trigServer, trigConns, selfClosed, appVars, httpsVars, errVars, valVars, pipeVars>>

\* the body has been read: the rest of the stack runs and answers
requestBody(s) ==
  /\ Running
  /\ sock[s] = "active"
  /\ lastResp' = pipeline(reqs[s].route, reqs[s].body, isShuttingDown, reqs[s].entered)
  /\ sock' = [sock EXCEPT ![s] = "idle"]
  /\ reqs' = [reqs EXCEPT ![s] = NoReq]
  /\ UNCHANGED <<server, connections, timers, isShuttingDown, pc, closeErr,
                 forceShutdownTimer, exitCode, exitReason, steps, closedCount, clearedCount,
                 cleanupCalls, triggersSeen, trigServer, trigConns, selfClosed, appVars, httpsVars, errVars, valVars, pipeVars>>

(***************************************************************************)
(* Shutdown controller of the robust server                                *)
(***************************************************************************)
\* the guard at the head of gracefulShutdown, left out
alreadyShuttingDownNoGuard == FALSE

\* the guard at the head of gracefulShutdown
alreadyShuttingDown == isShuttingDown

\* process.exit that reports success whatever the code
processExitZero(code) ==
  /\ exitCode' = 0
  /\ pc' = "exited"

\* process.exit(code)
processExit(code) ==
  /\ exitCode' = code
  /\ pc' = "exited"

\* Steps 2 to 4 with the timers cleared before the sockets are destroyed
drainResourcesTimersFirst(done) ==
  /\ closedCount' = Cardinality(connections)
  /\ sock' = [s \in Sockets |->
                IF s \in connections /\ sock[s] \in {"idle", "active"}
                THEN "destroyed" ELSE sock[s]]
  /\ reqs' = [s \in Sockets |-> IF s \in connections THEN NoReq ELSE reqs[s]]
  /\ connections' = {}
  /\ clearedCount' = Cardinality(timers)
  /\ timers' = {}
  /\ cleanupCalls' = cleanupCalls + 1
  /\ steps' = done \o <<"clearTimers", "destroyConnections", "cleanupStart">>
  /\ pc' = "awaitCleanup"

\* Steps 2 to 4 of gracefulShutdown up to the await of the cleanup hook:
\* destroy and forget the tracked sockets, clear the tracked timers, call
\* resources.cleanup()
drainResources(done) ==
  /\ closedCount' = Cardinality(connections)
  /\ sock' = [s \in Sockets |->
                IF s \in connections /\ sock[s] \in {"idle", "active"}
                THEN "destroyed" ELSE sock[s]]
  /\ reqs' = [s \in Sockets |-> IF s \in connections THEN NoReq ELSE reqs[s]]
  /\ connections' = {}
  /\ clearedCount' = Cardinality(timers)
  /\ timers' = clearAllTimers(timers)
  /\ cleanupCalls' = cleanupCalls + 1
  /\ steps' = done \o <<"destroyConnections", "clearTimers", "cleanupStart">>
  /\ pc' = "awaitCleanup"

\* server.close(cb) of Step 1. A listening server stops accepting; the runtime
\* may also destroy the idle keep-alive sockets (Node 19 and later do, earlier
\* releases do not). A server that is not listening reports an error.
serverClose(closeIdle) ==
  /\ server' = IF server = "listening" THEN "closing" ELSE server
  /\ closeErr' = (server # "listening")
  /\ sock' = [s \in Sockets |->
                IF closeIdle /\ server = "listening" /\ sock[s] = "idle"
                THEN "destroyed" ELSE sock[s]]

\* gracefulShutdown(signal), from its call to its first await
gracefulShutdown(signal) ==
  /\ Running
  /\ triggersSeen < MaxTriggers
  /\ triggersSeen' = triggersSeen + 1
  /\ IF alreadyShuttingDown
     THEN UNCHANGED <<server, sock, connections, timers, isShuttingDown, pc,
                      closeErr, forceShutdownTimer, exitCode, exitReason, steps, closedCount,
                      clearedCount, cleanupCalls, trigServer, trigConns, selfClosed, reqs,
                      lastResp, appVars, httpsVars, errVars, valVars, pipeVars>>
     ELSE /\ isShuttingDown' = TRUE
          /\ forceShutdownTimer' = "armed"
          /\ trigServer' = server
          /\ trigConns' = {s \in connections : sock[s] \in {"idle", "active"}}
          /\ selfClosed' = {}
          /\ IF server # "null"
             THEN /\ \E closeIdle \in BOOLEAN : serverClose(closeIdle)
                  /\ steps' = <<"setFlag", "stopListener">>
                  /\ pc' = "awaitClose"
                  /\ UNCHANGED <<connections, timers, exitCode, exitReason, closedCount,
                                 clearedCount, cleanupCalls, reqs, lastResp, appVars, httpsVars, errVars, valVars, pipeVars>>
             ELSE /\ drainResources(<<"setFlag">>)
                  /\ UNCHANGED <<server, closeErr, exitCode, exitReason, lastResp, appVars, httpsVars, errVars, valVars, pipeVars>>

\* a callback of server.close that takes no notice of the error: the drain
\* goes on with Step 2
serverCloseCallbackIgnoreError ==
  /\ Running
  /\ pc = "awaitClose"
  /\ closeErr \/ (server = "closing" /\ \A s \in Sockets : sock[s] \notin {"idle", "active"})
  /\ server' = IF closeErr THEN server ELSE "closed"
  /\ drainResources(Append(steps, "listenerStopped"))
  /\ UNCHANGED <<isShuttingDown, closeErr, forceShutdownTimer, exitCode, exitReason,
                 triggersSeen, trigServer, trigConns, selfClosed, lastResp, appVars, httpsVars, errVars, valVars, pipeVars>>

\* the callback given to server.close: on an error the catch block exits with
\* 1; otherwise it runs once every connection has ended, and the drain goes on
serverCloseCallback ==
  /\ Running
  /\ pc = "awaitClose"
  /\ IF closeErr
     THEN /\ forceShutdownTimer' = "cleared"
          /\ exitReason' = "closeError"
          /\ processExit(1)
          /\ steps' = Append(steps, "exit")
          /\ UNCHANGED <<server, sock, connections, timers, isShuttingDown, closeErr,
                         closedCount, clearedCount, cleanupCalls, triggersSeen,
                         trigServer, trigConns, selfClosed, reqs, lastResp, appVars, httpsVars, errVars, valVars, pipeVars>>
     ELSE /\ server = "closing"
          /\ \A s \in Sockets : sock[s] \notin {"idle", "active"}
          /\ server' = "closed"
          /\ drainResources(Append(steps, "listenerStopped"))
          /\ UNCHANGED <<isShuttingDown, closeErr, forceShutdownTimer, exitCode, exitReason,
                         triggersSeen, trigServer, trigConns, selfClosed, lastResp, appVars, httpsVars, errVars, valVars, pipeVars>>

\* the cleanup hook resolves: clear the forced-shutdown timer and exit with 0
cleanupResolves ==
  /\ Running
  /\ pc = "awaitCleanup"
  /\ forceShutdownTimer' = "cleared"
  /\ exitReason' = "completed"
  /\ processExit(0)
  /\ steps' = steps \o <<"cleanupDone", "exit">>
  /\ UNCHANGED <<server, sock, connections, timers, isShuttingDown, closeErr,
                 closedCount, clearedCount, cleanupCalls, triggersSeen,
                 trigServer, trigConns, selfClosed, reqs, lastResp, appVars, httpsVars, errVars, valVars, pipeVars>>

\* a catch block that gives up the shutdown and lets the server run on
cleanupRejectsResume ==
  /\ Running
  /\ pc = "awaitCleanup"
  /\ forceShutdownTimer' = "cleared"
  /\ isShuttingDown' = FALSE
  /\ pc' = "running"
  /\ UNCHANGED <<server, sock, connections, timers, closeErr, exitCode, exitReason,
                 steps, closedCount, clearedCount, cleanupCalls, triggersSeen,
                 trigServer, trigConns, selfClosed, reqs, lastResp, appVars, httpsVars, errVars, valVars, pipeVars>>

\* an overriding cleanup hook rejects: the catch block exits with 1
cleanupRejects ==
  /\ Running
  /\ pc = "awaitCleanup"
  /\ forceShutdownTimer' = "cleared"
  /\ exitReason' = "cleanupRejected"
  /\ processExit(1)
  /\ steps' = Append(steps, "exit")
  /\ UNCHANGED <<server, sock, connections, timers, isShuttingDown, closeErr,
                 closedCount, clearedCount, cleanupCalls, triggersSeen,
                 trigServer, trigConns, selfClosed, reqs, lastResp, appVars, httpsVars, errVars, valVars, pipeVars>>

\* a forced-shutdown timer that never expires
forceShutdownNever ==
  /\ FALSE
  /\ UNCHANGED vars

\* the forced-shutdown timer expires while the drain waits
forceShutdown ==
  /\ Running
  /\ forceShutdownTimer = "armed"
  /\ forceShutdownTimer' = "fired"
  /\ exitReason' = "timeout"
  /\ processExit(1)
  /\ steps' = Append(steps, "exit")
  /\ UNCHANGED <<server, sock, connections, timers, isShuttingDown, closeErr,
                 closedCount, clearedCount, cleanupCalls, triggersSeen,
                 trigServer, trigConns, selfClosed, reqs, lastResp, appVars, httpsVars, errVars, valVars, pipeVars>>

(***************************************************************************)
(* Specification of the robust server                                      *)
(***************************************************************************)
Next ==
  \/ createServer
  \/ startServer
  \/ \E s \in Sockets : onConnection(s)
  \/ \E s \in Sockets : socketEnds(s)
  \/ \E s \in Sockets : onSocketClose(s)
  \/ \E t \in Timers : addTimer(t)
  \/ \E t \in Timers : removeTimer(t)
  \/ \E s \in Sockets, r \in Routes : requestNoBody(s, r)
  \/ \E s \in Sockets, r \in Routes, b \in Bodies : requestHead(s, r, b)
  \/ \E s \in Sockets : requestBody(s)
  \/ \E sig \in Triggers : gracefulShutdown(sig)
  \/ serverCloseCallback
  \/ cleanupResolves
  \/ cleanupRejects
  \/ forceShutdown

Spec == Init /\ [][Next]_vars

(***************************************************************************)
(* Properties of the robust server                                         *)
(***************************************************************************)
\* the controller state of section 4.9 as a rank
ControllerRank ==
  IF pc = "exited" THEN 2 ELSE IF pc = "running" THEN 0 ELSE 1

Rank(step) == CHOOSE i \in DOMAIN DrainOrder : DrainOrder[i] = step
Done(step) == \E i \in DOMAIN steps : steps[i] = step

\* a trigger delivered while a shutdown is in progress changes nothing but
\* the count of triggers
LaterTriggerIsNoOp ==
  (isShuttingDown /\ triggersSeen' # triggersSeen) =>
     UNCHANGED <<server, sock, connections, timers, isShuttingDown, pc, closeErr,
                 forceShutdownTimer, exitCode, exitReason, steps, closedCount,
                 clearedCount, cleanupCalls, trigServer, trigConns, selfClosed, reqs, lastResp>>

\* C1 as stated: for any number of triggers the cleanup hook is invoked exactly
\* once by the time the process has exited, and a trigger after the first
\* performs no step.
C1_ExactlyOneCleanup ==
  /\ [](exitCode # -1 => cleanupCalls = 1)
  /\ [][LaterTriggerIsNoOp]_vars

\* C1 amended: for any number of triggers at most one drain sequence runs: the
\* cleanup hook is invoked at most once, exactly once when the process exits
\* with code 0 or the hook itself rejects, not at all when the listener's close
\* fails, and a trigger after the first performs no step.
C1_AtMostOneDrain ==
  /\ [](/\ cleanupCalls <= 1
        /\ (exitReason \in {"completed", "cleanupRejected"} => cleanupCalls = 1)
        /\ (exitReason = "closeError" => cleanupCalls = 0)
        /\ (exitCode = 0 => cleanupCalls = 1))
  /\ [][LaterTriggerIsNoOp]_vars

\* a second trigger arrived during the drain and the drain completed
C1_Witness ==
  /\ triggersSeen >= 2
  /\ exitCode = 0
  /\ cleanupCalls = 1

\* C2: shutdown is monotonic: isShuttingDown never goes from true to false and
\* the controller state never moves backwards from Running through Draining
\* to Terminated.
C2_Monotonic ==
  [][/\ (isShuttingDown => isShuttingDown')
     /\ ControllerRank' >= ControllerRank
     /\ (ControllerRank' = 2 => ControllerRank >= 1)]_vars

\* the process has terminated after a drain that began with the flag set
C2_Witness ==
  /\ pc = "exited"
  /\ isShuttingDown
  /\ Done("cleanupStart")

\* C3 as stated: a request that entered the pipeline while isShuttingDown was
\* true is answered 503 with Connection: close, and none of its validators or
\* handlers ran.
C3_RejectNewWork ==
  lastResp.entered =>
    /\ lastResp.status = 503
    /\ lastResp.connClose
    /\ ~lastResp.validatorsRan
    /\ ~lastResp.handlerRan

\* C4: the drain steps occur in the order of DrainOrder, a step is performed
\* only after the steps before it have finished (the listener steps are left
\* out only when there is no server), and the exit with code 0 comes last.
C4_StrictOrder ==
  /\ \A i, j \in DOMAIN steps : i < j => Rank(steps[i]) < Rank(steps[j])
  /\ \A i \in DOMAIN steps :
       steps[i] # "exit" =>
         \A k \in 1..(Rank(steps[i]) - 1) :
            \/ Done(DrainOrder[k])
            \/ /\ DrainOrder[k] \in {"stopListener", "listenerStopped"}
               /\ trigServer = "null"
  /\ (Done("stopListener") /\ Done("destroyConnections") => Done("listenerStopped"))
  /\ (exitCode = 0 => Done("cleanupDone") /\ steps[Len(steps)] = "exit")
  /\ (Done("setFlag") = isShuttingDown)

\* a drain of a listening server that ran every step
C4_Witness == steps = DrainOrder

\* the drain began with exactly one open tracked connection, which has not
\* ended by itself, no timer was tracked, and the cleanup hook did not reject
ScenarioD ==
  /\ Cardinality(trigConns) = 1
  /\ trigConns \cap selfClosed = {}
  /\ timers = {} /\ clearedCount \in {-1, 0}
  /\ exitReason # "cleanupRejected"

C8_HealthStatus ==
  (lastResp.route = "GET /health" /\ lastResp.body = "none") =>
    IF lastResp.entered
    THEN lastResp.status = 503 /\ lastResp.statusField = "shutting_down"
    ELSE lastResp.status = 200 /\ lastResp.statusField = "healthy"

\* a step of the request pipeline: a request is answered, or the head of a
\* request with a body arrives
RequestStep ==
  \/ lastResp' # lastResp
  \/ \E s \in Sockets : sock[s] = "idle" /\ sock'[s] = "active"
  \/ \E s \in Sockets : sock[s] = "active" /\ sock'[s] = "idle"

\* C24: processing a request, the failing ones that the error middleware
\* answers included, leaves isShuttingDown, the connection set and the timer
\* set unchanged, starts no shutdown and does not exit.
C24_RequestsLeaveShutdownState ==
  [][RequestStep =>
       UNCHANGED <<isShuttingDown, connections, timers, pc, forceShutdownTimer,
                   exitCode, steps, server>>]_vars

\* a malformed body has been answered 400 by the error middleware while the
\* server runs on with its connection and its timer tracked
C24_Witness ==
  /\ lastResp.body = "malformed"
  /\ lastResp.status = 400
  /\ ~isShuttingDown
  /\ pc = "running"
  /\ exitCode = -1
  /\ connections # {}
  /\ timers # {}

\* the robust server with the runtime's guarantee that an armed timer
\* expires; nothing is assumed of sockets, of the listener's close callback
\* or of the cleanup hook
SpecLive == Init /\ [][Next]_vars /\ WF_vars(forceShutdown)

\* C25: once the drain has begun the process terminates, even if a tracked
\* connection never closes, the listener's close callback never fires, or the
\* cleanup hook never resolves.
C25_BoundedDrain == isShuttingDown ~> (pc = "exited")

\* the forced-shutdown timer ended a drain whose listener never reported
\* closed, with a tracked connection still open
C25_Witness ==
  /\ pc = "exited"
  /\ exitReason = "timeout"
  /\ ~Done("listenerStopped")
  /\ \E s \in Sockets : sock[s] \in {"idle", "active"}

AcceptedNotClosed == {s \in Sockets : sock[s] \in {"idle", "active", "destroyed"}}

\* C28 as stated: in every reachable state resources.connections is exactly
\* the set of sockets accepted and not yet closed.
C28_TrackedExactly == connections = AcceptedNotClosed

\* C28 amended: until the drain's close-connections step resources.connections
\* is exactly the set of sockets accepted and not yet closed, a socket being
\* added on 'connection' and removed on its 'close'; that step empties the
\* set even if a destroyed socket has not emitted 'close' yet, and after the
\* drain of a server the set stays empty.
C28_TrackedUntilDrain ==
  /\ [](~Done("destroyConnections") => connections = AcceptedNotClosed)
  /\ []((Done("destroyConnections") /\ trigServer # "null") => connections = {})
  /\ [][\A s \in Sockets :
         /\ onConnection(s) => s \in connections'
         /\ onSocketClose(s) => s \notin connections']_vars
  /\ [][~Done("destroyConnections") /\ Done("destroyConnections")' => connections' = {}]_vars

\* the close-connections step has emptied the set while the socket it found
\* tracked, already destroyed, had not emitted 'close'
C28_Witness ==
  /\ Done("destroyConnections")
  /\ closedCount = 1
  /\ connections = {}
  /\ \E s \in Sockets : sock[s] = "destroyed"
  /\ trigServer = "listening"

\* C29: when a drain step fails (the listener's close reports an error, as
\* for a server that was created but is not listening, or the cleanup hook
\* rejects) gracefulShutdown performs none of the remaining steps, cancels
\* the forced-shutdown timer and exits with code 1; the process never exits
\* with code 0 after a failed step.
C29_FailedStepExitsOne ==
  /\ (pc # "running" /\ trigServer = "created") => closeErr
  /\ closeErr =>
        /\ exitCode # 0
        /\ ~Done("listenerStopped")
        /\ ~Done("destroyConnections")
        /\ ~Done("clearTimers")
        /\ cleanupCalls = 0
  /\ exitReason = "closeError" =>
        /\ closeErr
        /\ exitCode = 1
        /\ forceShutdownTimer = "cleared"
  /\ exitReason = "cleanupRejected" =>
        /\ exitCode = 1
        /\ forceShutdownTimer = "cleared"
        /\ ~Done("cleanupDone")
  /\ exitCode = 0 => exitReason = "completed"

\* the drain of a server that was created but not listening has ended with
\* code 1 and the timer cancelled, before any connection or timer was touched
C29_Witness ==
  /\ trigServer = "created"
  /\ exitReason = "closeError"
  /\ exitCode = 1
  /\ forceShutdownTimer = "cleared"
  /\ timers # {}
  /\ clearedCount = -1

(***************************************************************************)
(* Secure Express application (src/src/app.js): rate limiter, CORS, routes *)
(***************************************************************************)
\* RATE_LIMIT_MAX: requests allowed per window and client
RateLimitMax == 2
\* RATE_LIMIT_WINDOW_MS, in ticks
WindowMs == 2
\* number of requests the rate limiter counts in one run
MaxRequests == 5
\* the clock stops when the window opened at time 0 has expired
MaxTime == WindowMs

\* request paths: the exempt health paths, one rate-limited route and one path
\* no route matches
Paths == {"/health", "/api/health", "/api/users", "/nope"}
\* values of the Origin header ("none": the header is absent)
Origins == {"none", "http://localhost:3000", "http://evil.example"}

\* parseOrigins() with CORS_ORIGIN unset
whitelist == {"http://localhost:3000"}

\* skip without /api/health in the list
skipHealthOnly(path) == path = "/health"

\* rateLimitOptions.skip
skip(path) == path \in {"/health", "/api/health"}

\* a key generator that gives every client the same key
keyGeneratorShared(client) == "10.0.0.1"

\* rateLimitOptions.keyGenerator: req.ip
keyGenerator(client) == client

\* an origin validator that allows every origin
originValidatorAllowAll(origin) == 0

\* originValidator: the statusCode of the error it calls back with, 0 when
\* the origin is allowed
originValidator(origin) ==
  IF origin = "none" THEN 0
  ELSE IF origin \in whitelist THEN 0
  ELSE 403

\* the router: GET /health, GET /api/health and GET /api/users answer 200, the
\* catch-all handler answers 404
routes(path) == IF path = "/nope" THEN 404 ELSE 200

\* the answer of the rate limiter to a request over the limit: status 429 with
\* the configured message; no later stage runs
tooManyRequests(client, path, origin) ==
  [client |-> client, path |-> path, origin |-> origin, status |-> 429, corsOk |-> FALSE,
   acao |-> "none", secHeaders |-> FALSE, refId |-> FALSE]

\* the stages behind the rate limiter: helmet sets the security headers, cors
\* either reflects the origin or forwards the validator's error to
\* errorHandler, which answers with the error's statusCode and a reference id;
\* then body parsers, hpp and the routes
afterRateLimit(client, path, origin) ==
  [client |-> client, path |-> path, origin |-> origin,
   status |-> IF originValidator(origin) # 0 THEN originValidator(origin)
              ELSE routes(path),
   corsOk |-> (originValidator(origin) = 0),
   acao |-> IF originValidator(origin) = 0 /\ origin # "none" THEN origin ELSE "none",
   secHeaders |-> TRUE,
   refId |-> (originValidator(origin) # 0)]

\* the store's increment for a key: an expired (or new) entry starts a window
\* of windowMs at the current time with one hit, a live entry gets one more
hitsAfter(key) == IF resetTime[key] <= now THEN 1 ELSE hits[key] + 1
resetAfter(key) == IF resetTime[key] <= now THEN now + WindowMs ELSE resetTime[key]

\* rateLimit(rateLimitOptions) followed by the rest of the stack, for one
\* request of a client
appRequest(client, path, origin) ==
  /\ IF skip(path)
     THEN /\ appResp' = afterRateLimit(client, path, origin)
          /\ UNCHANGED <<hits, resetTime, rlLog>>
     ELSE LET key == keyGenerator(client)
              limited == hitsAfter(key) > RateLimitMax
          IN /\ Len(rlLog) < MaxRequests
             /\ hits' = [hits EXCEPT ![key] = hitsAfter(key)]
             /\ resetTime' = [resetTime EXCEPT ![key] = resetAfter(key)]
             /\ rlLog' = Append(rlLog, [client |-> client, time |-> now,
                                        limited |-> limited])
             /\ appResp' = IF limited
                           THEN tooManyRequests(client, path, origin)
                           ELSE afterRateLimit(client, path, origin)
  /\ UNCHANGED <<now, robustVars, httpsVars, errVars, valVars, pipeVars>>

\* time passes
tick ==
  /\ now < MaxTime
  /\ now' = now + 1
  /\ UNCHANGED <<hits, resetTime, rlLog, appResp, robustVars, httpsVars, errVars, valVars, pipeVars>>

NextApp ==
  \/ \E c \in Clients, p \in Paths, o \in Origins : appRequest(c, p, o)
  \/ tick

SpecApp == Init /\ [][NextApp]_vars

(***************************************************************************)
(* Properties of the rate limiter                                          *)
(***************************************************************************)
\* the counted requests of the client of entry i that precede it
Earlier(log, i) == {j \in 1..(i - 1) : log[j].client = log[i].client}
Latest(S) == CHOOSE j \in S : \A k \in S : k <= j

\* the start of the window the counted request i falls in: a client's first
\* request opens a window; a later one stays in the window of the request
\* before it unless windowMs has passed since that window opened
RECURSIVE WindowStart(_, _)
WindowStart(log, i) ==
  IF Earlier(log, i) = {} THEN log[i].time
  ELSE LET ws == WindowStart(log, Latest(Earlier(log, i)))
       IN IF log[i].time < ws + WindowMs THEN ws ELSE log[i].time

\* the position of the counted request i among its client's requests in its window
PositionInWindow(log, i) ==
  Cardinality({j \in 1..i : /\ log[j].client = log[i].client
                            /\ WindowStart(log, j) = WindowStart(log, i)})

\* the store's entry of a client changes only in a step that counts a request
\* of that client
OthersUntouched ==
  \A d \in Clients :
     (hits'[d] # hits[d] \/ resetTime'[d] # resetTime[d]) =>
        /\ Len(rlLog') = Len(rlLog) + 1
        /\ rlLog'[Len(rlLog')].client = d

ExemptLeavesStore ==
  (now' = now /\ appResp'.path \in {"/health", "/api/health"}) =>
     UNCHANGED <<hits, resetTime, rlLog>>

C11_CorsAsStated ==
  appResp.status # 0 =>
     /\ (appResp.origin = "none" \/ appResp.origin \in whitelist) => appResp.status # 403
     /\ (appResp.origin # "none" /\ appResp.origin \notin whitelist) =>
            /\ appResp.status = 403
            /\ appResp.acao # appResp.origin

\* C11 amended: the same for every request the rate limiter lets through; a
\* request it refuses is answered 429 whatever its Origin, and no response at
\* all reflects an origin off the whitelist.
C11_CorsDecision ==
  /\ appResp.status \notin {0, 429} =>
        /\ appResp.corsOk <=> (appResp.origin = "none" \/ appResp.origin \in whitelist)
        /\ appResp.corsOk => appResp.status # 403
        /\ ~appResp.corsOk => appResp.status = 403
  /\ (appResp.origin # "none" /\ appResp.origin \notin whitelist) =>
        appResp.acao # appResp.origin
  /\ appResp.acao # "none" => appResp.acao = appResp.origin /\ appResp.acao \in whitelist

\* a request from an origin off the whitelist was answered 403 without the
\* allow-origin header
C11_Witness ==
  /\ appResp.origin = "http://evil.example"
  /\ appResp.status = 403
  /\ appResp.acao = "none"

\* C12 as stated: every response the application sends carries the security
\* headers, whichever stage produced it.
C12_SecurityHeaders ==
  appResp.status # 0 => appResp.secHeaders

\* C18 as stated: every error response (status >= 400) carries a reference id.
C18_ReferenceId ==
  appResp.status >= 400 => appResp.refId

(***************************************************************************)
(* HTTPS-capable entry point (src/src/server.js)                           *)
(***************************************************************************)
HttpsRunning == httpsExit = -1

\* the callback of server.listen: the listener accepts connections
httpsListening ==
  /\ HttpsRunning
  /\ httpsServer = "starting"
  /\ httpsServer' = "listening"
  /\ UNCHANGED <<isProduction, httpsConns, httpsShuttingDown, shutdownTimer,
                 httpsCloseErr, httpsExit, httpsTriggers, httpsLast,
                 hasGuard, closeCalls, timersArmed, robustVars, appVars, errVars, valVars, pipeVars>>

\* the listener accepts a connection
httpsConnect ==
  /\ HttpsRunning
  /\ httpsServer = "listening"
  /\ httpsConns < MaxSockets
  /\ httpsConns' = httpsConns + 1
  /\ UNCHANGED <<isProduction, httpsServer, httpsShuttingDown, shutdownTimer,
                 httpsCloseErr, httpsExit, httpsTriggers, httpsLast,
                 hasGuard, closeCalls, timersArmed, robustVars, appVars, errVars, valVars, pipeVars>>

\* a connection ends
httpsDisconnect ==
  /\ HttpsRunning
  /\ httpsConns > 0
  /\ httpsConns' = httpsConns - 1
  /\ UNCHANGED <<isProduction, httpsServer, httpsShuttingDown, shutdownTimer,
                 httpsCloseErr, httpsExit, httpsTriggers, httpsLast,
                 hasGuard, closeCalls, timersArmed, robustVars, appVars, errVars, valVars, pipeVars>>

\* gracefulShutdown(signal) of the entry point: guard, flag, forced-exit timer
\* and server.close, which reports an error when the server is not listening
httpsGracefulShutdown ==
  IF httpsShuttingDown
  THEN UNCHANGED <<httpsServer, httpsShuttingDown, shutdownTimer, httpsCloseErr,
                   closeCalls, timersArmed>>
  ELSE /\ httpsShuttingDown' = TRUE
       /\ shutdownTimer' = "armed"
       /\ timersArmed' = timersArmed + 1
       /\ closeCalls' = closeCalls + 1
       /\ httpsServer' = IF httpsServer = "listening" THEN "closing" ELSE httpsServer
       /\ httpsCloseErr' = (httpsServer # "listening")

\* gracefulShutdown(signal) of the variant kept beside the schemas: no flag
\* and no guard; every call calls server.close and arms a forced-exit timer
\* of its own. The callbacks given to server.close run in the order of the
\* calls and the first one exits, so the first call decides whether the
\* exit reports an error. httpsShuttingDown records that a shutdown is under
\* way; the variant itself keeps no such flag.
gracefulShutdownNoGuard ==
  /\ httpsShuttingDown' = TRUE
  /\ closeCalls' = closeCalls + 1
  /\ httpsServer' = IF httpsServer = "listening" THEN "closing" ELSE httpsServer
  /\ httpsCloseErr' = IF closeCalls = 0 THEN httpsServer # "listening" ELSE httpsCloseErr
  /\ shutdownTimer' = "armed"
  /\ timersArmed' = timersArmed + 1

\* the gracefulShutdown the process handlers of the running entry point call
shutdown == IF hasGuard THEN httpsGracefulShutdown ELSE gracefulShutdownNoGuard

\* process.on('SIGTERM') and process.on('SIGINT'). A server.close that
\* failed calls back before the event loop takes the next event, so no
\* trigger is delivered while that callback is pending.
onSignal(sig) ==
  /\ HttpsRunning
  /\ ~httpsCloseErr
  /\ httpsTriggers < MaxTriggers
  /\ httpsTriggers' = httpsTriggers + 1
  /\ httpsLast' = sig
  /\ shutdown
  /\ UNCHANGED <<isProduction, httpsConns, httpsExit, hasGuard, robustVars, appVars, errVars, valVars, pipeVars>>

\* process.on('unhandledRejection'): shuts down in production only
onUnhandledRejection ==
  /\ HttpsRunning
  /\ ~httpsCloseErr
  /\ httpsTriggers < MaxTriggers
  /\ httpsTriggers' = httpsTriggers + 1
  /\ httpsLast' = "unhandledRejection"
  /\ IF isProduction
     THEN shutdown
     ELSE UNCHANGED <<httpsServer, httpsShuttingDown, shutdownTimer, httpsCloseErr,
                      closeCalls, timersArmed>>
  /\ UNCHANGED <<isProduction, httpsConns, httpsExit, hasGuard, robustVars, appVars, errVars, valVars, pipeVars>>

\* process.on('uncaughtException'): always shuts down
onUncaughtException ==
  /\ HttpsRunning
  /\ ~httpsCloseErr
  /\ httpsTriggers < MaxTriggers
  /\ httpsTriggers' = httpsTriggers + 1
  /\ httpsLast' = "uncaughtException"
  /\ shutdown
  /\ UNCHANGED <<isProduction, httpsConns, httpsExit, hasGuard, robustVars, appVars, errVars, valVars, pipeVars>>

\* the callback given to server.close: clears the timer (the variant without
\* the guard does not), exits with 1 on an error, else with 0 once every
\* connection has ended
httpsCloseCallback ==
  /\ HttpsRunning
  /\ httpsShuttingDown
  /\ \/ httpsCloseErr
     \/ httpsServer = "closing" /\ httpsConns = 0
  /\ shutdownTimer' = IF hasGuard THEN "cleared" ELSE shutdownTimer
  /\ httpsExit' = IF httpsCloseErr THEN 1 ELSE 0
  /\ UNCHANGED <<isProduction, httpsServer, httpsConns, httpsShuttingDown,
                 httpsCloseErr, httpsTriggers, httpsLast,
                 hasGuard, closeCalls, timersArmed, robustVars, appVars, errVars, valVars, pipeVars>>

\* the forced-exit timer expires
httpsForceShutdown ==
  /\ HttpsRunning
  /\ shutdownTimer = "armed"
  /\ shutdownTimer' = "fired"
  /\ httpsExit' = 1
  /\ UNCHANGED <<isProduction, httpsServer, httpsConns, httpsShuttingDown,
                 httpsCloseErr, httpsTriggers, httpsLast,
                 hasGuard, closeCalls, timersArmed, robustVars, appVars, errVars, valVars, pipeVars>>

\* the entry point started in either environment mode
InitAnyMode ==
  /\ InitRobust
  /\ InitApp
  /\ \E production, guard \in BOOLEAN : InitHttps(production, guard)
  /\ InitErr
  /\ InitVal
  /\ InitPipe

NextHttps ==
  \/ httpsListening
  \/ httpsConnect
  \/ httpsDisconnect
  \/ \E sig \in {"SIGTERM", "SIGINT"} : onSignal(sig)
  \/ onUnhandledRejection
  \/ onUncaughtException
  \/ httpsCloseCallback
  \/ httpsForceShutdown

SpecHttps == InitAnyMode /\ [][NextHttps]_vars

\* C7 as stated: after any process-level fault, in either environment mode,
\* gracefulShutdown has been called and the shutdown is under way.
C7_FaultsStartShutdown ==
  httpsLast \in Faults => httpsShuttingDown

\* C23: in every variant of the entry point a shutdown trigger that arrives
\* while a shutdown is under way is a no-op: server.close is called at most
\* once and at most one forced-exit timer is armed.
C23_SecondTriggerNoOp ==
  /\ closeCalls <= 1
  /\ timersArmed <= 1

(***************************************************************************)
(* Error formatters: errorHandler of the secure application                *)
(* (src/src/utils/errorHandler.js) and the global error handling           *)
(* middleware of the robust server (src/server.js)                         *)
(***************************************************************************)
\* number of rules one request may violate at once
MaxViolations == 3

\* values of NODE_ENV
Envs == {"production", "development", "test"}

\* errors a route handler or a middleware may throw or pass to next()
ThrownErrors ==
  {e \in [from : {"handler"}, statusCode : {0, 400, 503}, status : {0, 404},
          name : {"absent", "Error", "ValidationError", "SyntaxError"},
          isJoi : BOOLEAN, jsonSyntax : BOOLEAN, hasMessage : BOOLEAN,
          hasStack : {TRUE}, isOperational : BOOLEAN,
          details : 0..MaxViolations, violations : {0}] :
     /\ e.jsonSyntax => (e.name = "SyntaxError" /\ e.hasMessage)
     /\ e.details > 0 => (e.isJoi /\ e.name = "ValidationError")
     /\ e.isJoi => e.name = "ValidationError"}

\* the error originValidator calls back with for an origin off the whitelist
corsFailure ==
  [NoFailure EXCEPT !.from = "cors", !.statusCode = 403, !.name = "Error",
                    !.hasMessage = TRUE, !.hasStack = TRUE]

\* the errors of express.json(): a malformed body and a body over the limit
bodyParserFailures ==
  { [NoFailure EXCEPT !.from = "bodyParser", !.statusCode = 400, !.status = 400,
                      !.name = "SyntaxError", !.jsonSyntax = TRUE,
                      !.hasMessage = TRUE, !.hasStack = TRUE],
    [NoFailure EXCEPT !.from = "bodyParser", !.statusCode = 413, !.status = 413,
                      !.name = "PayloadTooLargeError",
                      !.hasMessage = TRUE, !.hasStack = TRUE] }

\* what the validator created with passError: true hands to next() when the
\* schema rejects the request: the container {value, error, type} of the
\* validation result, the Joi error with its k details under .error
validator(k) ==
  [NoFailure EXCEPT !.from = "validator", !.violations = k]

\* getStatusCode
getStatusCode(err) ==
  IF err.statusCode # 0 THEN err.statusCode
  ELSE IF err.status # 0 THEN err.status
  ELSE IF err.name = "ValidationError" \/ err.isJoi THEN 400
  ELSE IF err.jsonSyntax THEN 400
  ELSE 500

\* errorHandler answering in every mode as it does outside production
errorHandlerVerbose(err, env) ==
  [by |-> "errorHandler", env |-> env, statusCode |-> getStatusCode(err),
   message |-> IF err.hasMessage THEN "own" ELSE "An error occurred",
   ownMessage |-> err.hasMessage,
   ownName |-> (err.name # "absent"),
   stack |-> err.hasStack,
   details |-> IF err.details > 0 THEN "own" ELSE "null",
   detailCount |-> err.details,
   refId |-> TRUE]

\* errorHandler: the envelope it answers with
errorHandler(err, env) ==
  IF env = "production"
  THEN [by |-> "errorHandler", env |-> env, statusCode |-> getStatusCode(err),
        message |-> IF getStatusCode(err) = 400
                    THEN "Bad Request: Invalid input provided"
                    ELSE "An unexpected error occurred",
        ownMessage |-> FALSE, ownName |-> FALSE, stack |-> FALSE,
        details |-> "absent", detailCount |-> 0, refId |-> TRUE]
  ELSE [by |-> "errorHandler", env |-> env, statusCode |-> getStatusCode(err),
        message |-> IF err.hasMessage THEN "own" ELSE "An error occurred",
        ownMessage |-> err.hasMessage,
        ownName |-> (err.name # "absent"),
        stack |-> err.hasStack,
        details |-> IF err.details > 0 THEN "own" ELSE "null",
        detailCount |-> err.details,
        refId |-> TRUE]

\* the errorResponse the robust server's error middleware builds; with
\* NODE_ENV unset CONFIG.NODE_ENV is 'development'
errorResponse(err, env) ==
  [by |-> "errorMiddleware", env |-> env,
   statusCode |-> IF err.statusCode # 0 THEN err.statusCode
                  ELSE IF err.status # 0 THEN err.status ELSE 500,
   message |-> IF env = "production" /\ ~err.isOperational
               THEN "An unexpected error occurred"
               ELSE IF err.hasMessage THEN "own" ELSE "absent",
   ownMessage |-> (~(env = "production" /\ ~err.isOperational) /\ err.hasMessage),
   ownName |-> (err.name # "absent"),
   stack |-> (env = "development" /\ err.hasStack),
   details |-> IF env = "development" THEN "request" ELSE "absent",
   detailCount |-> 0,
   refId |-> FALSE]

\* the failures that reach errorHandler: from cors, the body parsers, the
\* validators of the routes, and the handlers
SecureFailures ==
  {corsFailure} \cup bodyParserFailures \cup {validator(k) : k \in 1..MaxViolations}
    \cup ThrownErrors

\* the failures that reach the robust server's error middleware
RobustFailures == bodyParserFailures \cup ThrownErrors

\* app.use(errorHandler) receives a failure
errorHandlerCall(err, env) ==
  /\ failure' = err
  /\ envelope' = errorHandler(err, env)
  /\ UNCHANGED <<robustVars, appVars, httpsVars, valVars, pipeVars>>

\* the robust server's error middleware receives a failure
errorMiddlewareCall(err, env) ==
  /\ failure' = err
  /\ envelope' = errorResponse(err, env)
  /\ UNCHANGED <<robustVars, appVars, httpsVars, valVars, pipeVars>>

NextErr ==
  \/ \E err \in SecureFailures, env \in Envs : errorHandlerCall(err, env)
  \/ \E err \in RobustFailures, env \in Envs : errorMiddlewareCall(err, env)

SpecErr == Init /\ [][NextErr]_vars

(***************************************************************************)
(* Properties of the error formatters                                      *)
(***************************************************************************)
\* the failure has no explicit statusCode or status
NoExplicitStatus == failure.statusCode = 0 /\ failure.status = 0
\* the failure is validation-shaped: name 'ValidationError' or isJoi
ValidationShaped == failure.name = "ValidationError" \/ failure.isJoi

\* C13 as stated: errorHandler's status is the failure's explicit statusCode or
\* status if it has one, else 400 for a validation-shaped failure, else 400 for
\* a JSON-syntax failure, else 500; and a schema-validation failure forwarded
\* by the validator middleware is answered 400.
C13_StatusClassification ==
  envelope.by = "errorHandler" =>
     /\ failure.statusCode # 0 => envelope.statusCode = failure.statusCode
     /\ (failure.statusCode = 0 /\ failure.status # 0) =>
           envelope.statusCode = failure.status
     /\ (NoExplicitStatus /\ ValidationShaped) => envelope.statusCode = 400
     /\ (NoExplicitStatus /\ ~ValidationShaped /\ failure.jsonSyntax) =>
           envelope.statusCode = 400
     /\ (NoExplicitStatus /\ ~ValidationShaped /\ ~failure.jsonSyntax
           /\ failure.from # "validator") => envelope.statusCode = 500
     /\ failure.from = "validator" => envelope.statusCode = 400

\* C14 as stated: a request that violates k rules of a route's schema is
\* answered 400 with a detail list of exactly k entries.
C14_ValidationTotality ==
  (envelope.by = "errorHandler" /\ failure.from = "validator") =>
     /\ envelope.statusCode = 400
     /\ envelope.details = "own"
     /\ envelope.detailCount = failure.violations

\* the message is one of the two generic wordings, chosen by the status
GenericMessage ==
  envelope.message = IF envelope.statusCode = 400
                     THEN "Bad Request: Invalid input provided"
                     ELSE "An unexpected error occurred"

MaxIdLen == 2

DigitChars == {"0", "1", "2", "3", "5", "7"}
LowerChars == {"a", "b", "c", "d", "e", "k", "w", "x"}
UpperChars == {"W"}
DigitOf(ch) ==
  CASE ch = "0" -> 0 [] ch = "1" -> 1 [] ch = "2" -> 2 [] ch = "3" -> 3
    [] ch = "5" -> 5 [] ch = "7" -> 7

\* the text of n repetitions of one character
Repeat(ch, n) == [i \in 1..n |-> ch]

\* String.prototype.trim as the trim() sanitizer applies it
RECURSIVE TrimLeft(_)
TrimLeft(t) == IF t # <<>> /\ Head(t) = " " THEN TrimLeft(Tail(t)) ELSE t
RECURSIVE TrimRight(_)
TrimRight(t) ==
  IF t # <<>> /\ t[Len(t)] = " " THEN TrimRight(SubSeq(t, 1, Len(t) - 1)) ELSE t
trim(t) == TrimRight(TrimLeft(t))

\* the digits of a text that matches /^[-+]?[0-9]+$/, and <<>> for any other
Unsigned(t) == IF t # <<>> /\ Head(t) \in {"-", "+"} THEN Tail(t) ELSE t
IntRegex(t) ==
  /\ Unsigned(t) # <<>>
  /\ \A i \in 1..Len(Unsigned(t)) : Unsigned(t)[i] \in DigitChars

\* a number: sign and decimal digits without leading zeros
NoNumber == [neg |-> FALSE, digits |-> <<>>]
RECURSIVE StripZeros(_)
StripZeros(d) == IF Len(d) > 1 /\ Head(d) = 0 THEN StripZeros(Tail(d)) ELSE d
Num(n) == [neg |-> FALSE, digits |-> <<n>>]

\* parseInt(text, 10) of a text that matches the integer pattern
toInt(t) ==
  [neg |-> (Head(t) = "-"),
   digits |-> StripZeros([i \in 1..Len(Unsigned(t)) |-> DigitOf(Unsigned(t)[i])])]

\* the value of a short digit sequence
RECURSIVE NatOf(_)
NatOf(d) == IF d = <<>> THEN 0 ELSE 10 * NatOf(SubSeq(d, 1, Len(d) - 1)) + d[Len(d)]

\* n >= k and n <= k for a number n and a small bound k
AtLeast(n, k) == ~n.neg /\ (Len(n.digits) > 4 \/ NatOf(n.digits) >= k)
AtMost(n, k) == n.neg \/ (Len(n.digits) <= 4 /\ NatOf(n.digits) <= k)

\* isInt without the range options
isIntNoRange(t, min, max) == IntRegex(t)

\* isInt({min, max}); max = 0 stands for no upper limit
isInt(t, min, max) ==
  /\ IntRegex(t)
  /\ AtLeast(toInt(t), min)
  /\ (max = 0 \/ AtMost(toInt(t), max))

\* parseInt(n, 10) of a number: it reads the decimal text of n, which is in
\* exponent notation (d.ddde+21) from 10^21 on, up to its first non-digit
parseIntOfNumber(n) ==
  IF Len(n.digits) >= 22 THEN [neg |-> n.neg, digits |-> <<n.digits[1]>>] ELSE n

\* the entries of one validation chain: one per failed validator, in order
Failed(field, value, checks) ==
  LET RECURSIVE Rec(_)
      Rec(i) == IF i > Len(checks) THEN <<>>
                ELSE (IF checks[i][1] THEN <<>>
                      ELSE <<[field |-> field, message |-> checks[i][2], value |-> value]>>)
                     \o Rec(i + 1)
  IN Rec(1)

\* isLength({min, max})
isLength(t, min, max) == Len(t) >= min /\ Len(t) <= max

\* isEmail on the texts of the model: one "@" with a local part before it and
\* a dotted domain after it
isEmail(t) ==
  \E i \in 2..(Len(t) - 3) :
     /\ t[i] = "@"
     /\ \A j \in 1..Len(t) : t[j] = "@" => j = i
     /\ \E k \in (i + 2)..(Len(t) - 1) : t[k] = "."
     /\ \A j \in 1..Len(t) : t[j] \in LowerChars \cup DigitChars \cup {"@", "."}

\* validateUserRegistration: the chains of username, email and password
validateUserRegistration(b) ==
  Failed("username", trim(b.username),
         << <<trim(b.username) # <<>>, "Username is required">>,
            <<isLength(trim(b.username), 3, 50),
              "Username must be between 3 and 50 characters">>,
            <<trim(b.username) # <<>> /\ \A i \in 1..Len(trim(b.username)) :
                 trim(b.username)[i] \in LowerChars \cup UpperChars \cup DigitChars \cup {"_"},
              "Username can only contain letters, numbers, and underscores">> >>)
  \o
  Failed("email", trim(b.email),
         << <<trim(b.email) # <<>>, "Email is required">>,
            <<isEmail(trim(b.email)), "Invalid email format">> >>)
  \o
  Failed("password", b.password,
         << <<b.password # <<>>, "Password is required">>,
            <<isLength(b.password, 8, 128),
              "Password must be between 8 and 128 characters">>,
            <<(\E i \in 1..Len(b.password) : b.password[i] \in LowerChars)
                /\ (\E i \in 1..Len(b.password) : b.password[i] \in UpperChars)
                /\ (\E i \in 1..Len(b.password) : b.password[i] \in DigitChars),
              "Password must contain at least one lowercase letter, one uppercase letter, and one number">> >>)

\* validateResourceId: the chain of the id parameter
validateResourceId(id) ==
  Failed("id", id,
         << <<id # <<>>, "Resource ID is required">>,
            <<isInt(id, 1, 0), "Resource ID must be a positive integer">> >>)

\* the value Express's query parser gives to a parameter: the text when the
\* name was supplied once, the array of the texts in the order supplied when
\* it was supplied several times. No middleware of the robust server changes
\* req.query before the validators.
queryParser(v) ==
  IF ~v.present THEN NoValue
  ELSE [array |-> (v.more # <<>>), items |-> <<v.text>> \o v.more]

\* the sanitizer toInt() of a validation chain: applied to the value, or to
\* every element of an array
toIntEach(value) ==
  [array |-> value.array, items |-> [i \in DOMAIN value.items |-> toInt(value.items[i])]]

\* const totalItems = 100
totalItems == 100

\* validatePagination: the optional chains of page and limit
validatePagination(q) ==
  LET RECURSIVE PageErrors(_)
      PageErrors(vs) ==
        IF vs = <<>> THEN <<>>
        ELSE Failed("page", Head(vs),
                    << <<isInt(Head(vs), 1, 0), "Page must be a positive integer">> >>)
             \o PageErrors(Tail(vs))
      RECURSIVE LimitErrors(_)
      LimitErrors(vs) ==
        IF vs = <<>> THEN <<>>
        ELSE Failed("limit", Head(vs),
                    << <<isInt(Head(vs), 1, 100), "Limit must be between 1 and 100">> >>)
             \o LimitErrors(Tail(vs))
  IN PageErrors(queryParser(q.page).items) \o LimitErrors(queryParser(q.limit).items)

\* handleValidationErrors when the validation result is not empty: 400 with
\* one entry {field, message, value} per error
handleValidationErrors(errors) ==
  [NoValResp EXCEPT !.status = 400, !.error = "Validation Error", !.details = errors]

\* app.post('/api/users', validateUserRegistration, handleValidationErrors, handler)
postUsers(b) ==
  IF validateUserRegistration(b) # <<>>
  THEN handleValidationErrors(validateUserRegistration(b))
  ELSE [NoValResp EXCEPT !.status = 201, !.handlerRan = TRUE]

\* app.get('/api/resources/:id', validateResourceId, handleValidationErrors,
\* handler): toInt() stores the number in req.params.id and the handler
\* answers with parseInt(id, 10)
getResource(id) ==
  IF validateResourceId(id) # <<>>
  THEN handleValidationErrors(validateResourceId(id))
  ELSE [NoValResp EXCEPT !.status = 200, !.handlerRan = TRUE,
                         !.dataId = parseIntOfNumber(toInt(id))]

\* the test of the handler's loop without the bound totalItems
loopTestNoBound(i, limit, offset) == i < limit

\* the test of the handler's loop: i < limit && (offset + i) < totalItems
loopTest(i, limit, offset) == i < limit /\ (offset + i) < totalItems

\* for (let i = 0; loopTest; i++) items.push({ id: offset + i + 1, ... }):
\* the loop runs for i = 0, 1, ... up to the first i that fails the test,
\* and the ids pushed are offset + 1, ..., offset + that i
itemsLoop(limit, offset) ==
  LET runs == CHOOSE c \in 0..limit :
                 /\ \A i \in 0..(c - 1) : loopTest(i, limit, offset)
                 /\ ~loopTest(c, limit, offset)
  IN [k \in 1..runs |-> offset + k]

\* Math.ceil(a / b) for positive integers
ceilDiv(a, b) == (a + b - 1) \div b

\* app.get('/api/items', validatePagination, handleValidationErrors, handler):
\* page = req.query.page || 1 and limit = req.query.limit || 10 are the
\* numbers toInt() stored in req.query, or arrays of them. Arithmetic on an
\* array of two or more numbers gives NaN, every comparison with NaN is
\* false, and so the loop adds no item.
getItems(q) ==
  IF validatePagination(q) # <<>>
  THEN handleValidationErrors(validatePagination(q))
  ELSE LET page == IF q.page.present THEN toIntEach(queryParser(q.page))
                   ELSE [array |-> FALSE, items |-> <<Num(1)>>]
           limit == IF q.limit.present THEN toIntEach(queryParser(q.limit))
                    ELSE [array |-> FALSE, items |-> <<[neg |-> FALSE, digits |-> <<1, 0>>]>>]
           p == NatOf(page.items[1].digits)
           l == NatOf(limit.items[1].digits)
           totalPages == IF limit.array THEN NotANumber ELSE ceilDiv(totalItems, l)
       IN [NoValResp EXCEPT !.status = 200, !.handlerRan = TRUE,
             !.currentPage = page,
             !.limit = limit,
             !.ids = IF page.array \/ limit.array THEN <<>>
                     ELSE itemsLoop(l, (p - 1) * l),
             !.totalPages = totalPages,
             !.hasNextPage = IF page.array \/ limit.array THEN FALSE ELSE p < totalPages,
             !.hasPreviousPage = IF page.array THEN FALSE ELSE p > 1]

\* texts of 1..n characters over an alphabet
Texts(alphabet, n) == UNION {[1..k -> alphabet] : k \in 1..n}

\* the usernames, emails and passwords a client submits
Usernames ==
  { <<>>, <<"x">>, <<"a", "b">>, <<"a", "b", "c">>, <<"a", "!">>,
    <<" ", "a", "b", " ">>, Repeat("a", 51) }
Emails == { <<>>, <<"b", "a", "d">>, <<"a", "@", "b", ".", "c", "d">> }
Passwords ==
  { <<>>, <<"w", "e", "a", "k">>, <<"W", "e", "a", "k", "1">>,
    <<"w", "e", "a", "k", "w", "e", "a", "k">>,
    <<"W", "e", "a", "k", "w", "e", "a", "1">> }

\* the id parameters: every short text over the alphabet, and 123, -5, abc,
\* 007, +5, 1.5 and 10^21
Ids ==
  Texts({"-", "0", "1", "a"}, MaxIdLen)
    \cup { <<"1", "2", "3">>, <<"-", "5">>, <<"a", "b", "c">>, <<"0", "0", "7">>,
           <<"+", "5">>, <<"1", ".", "5">>, <<"1">> \o Repeat("0", 21) }

\* the values of page and limit: absent, a text, or several texts for the
\* same name (?page=1&page=10)
Pages ==
  {[present |-> FALSE, text |-> NoText, more |-> <<>>]}
    \cup {[present |-> TRUE, text |-> t, more |-> <<>>] :
            t \in Texts({"-", "0", "1"}, MaxIdLen) \cup {<<>>, <<"a">>, <<"0", "0", "7">>}}
    \cup {[present |-> TRUE, text |-> <<"1">>, more |-> m] :
            m \in { << <<"1", "0">> >>, << <<"a">> >>, << <<"0", "0", "7">>, <<"1">> >> }}
    \cup {[present |-> TRUE, text |-> <<"a">>, more |-> << <<"1">> >>]}
Limits ==
  {[present |-> FALSE, text |-> NoText, more |-> <<>>]}
    \cup {[present |-> TRUE, text |-> t, more |-> <<>>] :
            t \in { <<>>, <<"0">>, <<"1">>, <<"1", "5">>, <<"5", "0">>, <<"1", "0", "0">>,
                    <<"1", "0", "1">>, <<"2", "0", "0">>, <<"-", "1">>, <<"a">> }}
    \cup {[present |-> TRUE, text |-> <<"5", "0">>, more |-> << <<"1">> >>]}

\* POST /api/users arrives with a parsed body
postUsersRequest(b) ==
  /\ valReq' = [NoValReq EXCEPT !.env = valReq.env, !.route = "POST /api/users",
                                !.body = b]
  /\ valResp' = postUsers(b)
  /\ UNCHANGED <<robustVars, appVars, httpsVars, errVars, pipeVars>>

\* GET /api/resources/:id arrives
getResourceRequest(id) ==
  /\ valReq' = [NoValReq EXCEPT !.env = valReq.env, !.route = "GET /api/resources/:id",
                                !.id = id]
  /\ valResp' = getResource(id)
  /\ UNCHANGED <<robustVars, appVars, httpsVars, errVars, pipeVars>>

\* GET /api/items arrives
getItemsRequest(q) ==
  /\ valReq' = [NoValReq EXCEPT !.env = valReq.env, !.route = "GET /api/items",
                                !.query = q]
  /\ valResp' = getItems(q)
  /\ UNCHANGED <<robustVars, appVars, httpsVars, errVars, pipeVars>>

\* the robust server started with NODE_ENV set to any mode
InitValAnyMode ==
  /\ InitRobust
  /\ InitApp
  /\ InitHttps(FALSE, TRUE)
  /\ InitErr
  /\ \E env \in Envs : valReq = [NoValReq EXCEPT !.env = env]
  /\ valResp = NoValResp
  /\ InitPipe

NextVal ==
  \/ \E u \in Usernames, e \in Emails, pw \in Passwords :
        postUsersRequest([username |-> u, email |-> e, password |-> pw])
  \/ \E id \in Ids : getResourceRequest(id)
  \/ \E pg \in Pages, lim \in Limits : getItemsRequest([page |-> pg, limit |-> lim])

SpecVal == InitValAnyMode /\ [][NextVal]_vars

(***************************************************************************)
(* Properties of the validated routes                                      *)
(***************************************************************************)
\* the fields named in a detail list
FieldsOf(details) == {details[i].field : i \in 1..Len(details)}

\* the request of Scenario A: a 2-character username, an email without "@"
\* and the password 'weak'
ScenarioA ==
  /\ valReq.route = "POST /api/users"
  /\ valReq.body.username = <<"a", "b">>
  /\ valReq.body.email = <<"b", "a", "d">>
  /\ valReq.body.password = <<"w", "e", "a", "k">>

\* C15 as stated: Scenario A is answered 400 with a detail list of exactly 3
\* entries whose fields are exactly username, email and password.
C15_ScenarioA ==
  ScenarioA =>
     /\ valResp.status = 400
     /\ Len(valResp.details) = 3
     /\ FieldsOf(valResp.details) = {"username", "email", "password"}

\* the value a client submitted for a field of the request
Submitted(field) ==
  CASE field = "username" -> trim(valReq.body.username)
    [] field = "email" -> trim(valReq.body.email)
    [] field = "password" -> valReq.body.password
    [] field = "id" -> valReq.id
    [] field = "page" -> valReq.query.page.text
    [] field = "limit" -> valReq.query.limit.text

\* C16 as stated: in production no entry of the detail list of a validation
\* failure contains the submitted value; in development every entry has it.
C16_Redaction ==
  valResp.status = 400 =>
     /\ valReq.env = "production" =>
           \A i \in 1..Len(valResp.details) :
              valResp.details[i].value # Submitted(valResp.details[i].field)
     /\ valReq.env = "development" =>
           \A i \in 1..Len(valResp.details) :
              valResp.details[i].value = Submitted(valResp.details[i].field)

\* the text is a decimal integer and its value is at least 1
PositiveInteger(t) ==
  /\ IntRegex(t)
  /\ Head(t) # "-"
  /\ \E i \in 1..Len(Unsigned(t)) : Unsigned(t)[i] # "0"

\* the text is a decimal integer between 1 and 100
OneToHundred(t) ==
  /\ PositiveInteger(t)
  /\ \/ Len(toInt(t).digits) <= 2
     \/ toInt(t).digits = <<1, 0, 0>>

\* C19 as stated: GET /api/resources/:id answers 200 with data.id the numeric
\* value of id exactly when id is an integer >= 1, and otherwise 400
\* 'Validation Error' with an entry for 'id' about a positive integer, without
\* running the handler.
C19_ResourceId ==
  valReq.route = "GET /api/resources/:id" =>
     IF PositiveInteger(valReq.id)
     THEN /\ valResp.status = 200
          /\ valResp.handlerRan
          /\ valResp.dataId = toInt(valReq.id)
     ELSE /\ valResp.status = 400
          /\ valResp.error = "Validation Error"
          /\ ~valResp.handlerRan
          /\ \E i \in 1..Len(valResp.details) :
                /\ valResp.details[i].field = "id"
                /\ valResp.details[i].message = "Resource ID must be a positive integer"

\* the texts a client supplied for a query parameter, in order
Supplied(v) == IF v.present THEN <<v.text>> \o v.more ELSE <<>>

Repeated == {f \in {"page", "limit"} : valReq.query[f].more # <<>>}
LastSupplied(f) == Supplied(valReq.query[f])[Len(Supplied(valReq.query[f]))]

\* C26: a query field supplied several times reaches the route's validator
\* and handler as a single scalar equal to the last supplied value, never as
\* an array: the request is judged by the last values alone and the handler
\* reads them.
C26_LastValueWins ==
  (valReq.route = "GET /api/items" /\ Repeated # {}) =>
     /\ valResp.status = 400 =>
           \/ "page" \in Repeated /\ ~PositiveInteger(LastSupplied("page"))
           \/ "limit" \in Repeated /\ ~OneToHundred(LastSupplied("limit"))
           \/ \E i \in DOMAIN valResp.details : valResp.details[i].field \notin Repeated
     /\ valResp.handlerRan =>
           /\ "page" \in Repeated =>
                 valResp.currentPage = [array |-> FALSE, items |-> <<toInt(LastSupplied("page"))>>]
           /\ "limit" \in Repeated =>
                 valResp.limit = [array |-> FALSE, items |-> <<toInt(LastSupplied("limit"))>>]

\* the larger and the smaller of two integers
Max(a, b) == IF a >= b THEN a ELSE b
Min(a, b) == IF a <= b THEN a ELSE b

\* C30: for a valid page >= 1 and a valid limit in 1..100 (1 and 10 when
\* omitted) GET /api/items returns min(limit, max(0, 100 - (page-1)*limit))
\* items with consecutive ids from (page-1)*limit + 1, all in 1..100, with
\* totalPages = ceil(100/limit), hasNextPage exactly when page < totalPages
\* and hasPreviousPage exactly when page > 1.
C30_ItemsPage ==
  LET page == valReq.query.page
      limit == valReq.query.limit
  IN (/\ valReq.route = "GET /api/items"
      /\ page.more = <<>> /\ limit.more = <<>>
      /\ page.present => PositiveInteger(page.text)
      /\ limit.present => OneToHundred(limit.text)) =>
        LET p == IF page.present THEN NatOf(toInt(page.text).digits) ELSE 1
            l == IF limit.present THEN NatOf(toInt(limit.text).digits) ELSE 10
            n == Min(l, Max(0, 100 - (p - 1) * l))
        IN /\ valResp.status = 200
           /\ Len(valResp.ids) = n
           /\ \A i \in 1..n : valResp.ids[i] = (p - 1) * l + i
           /\ \A i \in 1..n : valResp.ids[i] \in 1..100
           /\ valResp.totalPages * l >= 100
           /\ (valResp.totalPages - 1) * l < 100
           /\ valResp.hasNextPage <=> p < valResp.totalPages
           /\ valResp.hasPreviousPage <=> p > 1

\* page 7 with limit 15 is the last page: the ten items 91..100
C30_Witness ==
  /\ valReq.route = "GET /api/items"
  /\ valReq.query.page.text = <<"0", "0", "7">>
  /\ valReq.query.limit.text = <<"1", "5">>
  /\ valResp.ids = [i \in 1..10 |-> 90 + i]
  /\ valResp.totalPages = 7
  /\ ~valResp.hasNextPage
  /\ valResp.hasPreviousPage

(***************************************************************************)
(* Middleware stack of the secure application (src/src/app.js)             *)
(***************************************************************************)
\* request methods the stack is driven with
Methods == {"GET", "POST", "OPTIONS"}
\* bodies a client may send: none, JSON the schema accepts, JSON the schema
\* rejects, text that is not JSON, JSON over the size limit
PipeBodies == {"none", "valid", "invalid", "malformed", "tooLarge"}
\* the client whose requests are followed through the stack
PipeClients == {"10.0.0.1"}
\* paths the stack is driven with: a health endpoint, a validated route, and
\* a path no route matches
PipePaths == {"/health", "/api/users", "/nope"}

\* what a middleware does with a request: "next" passes it on, "error"
\* forwards a failure, "respond" answers it
passOn == [kind |-> "next", status |-> 0, keys |-> {}, err |-> NoFailure]
forward(err) == [kind |-> "error", status |-> 0, keys |-> {}, err |-> err]
respond(status, keys) == [kind |-> "respond", status |-> status, keys |-> keys, err |-> NoFailure]

\* the route layers of the router that match a request, in registration
\* order, followed by the catch-all
router(method, path) ==
  (IF method = "GET" /\ path = "/health" THEN <<"health">>
   ELSE IF method = "GET" /\ path = "/api/health" THEN <<"apiHealth">>
   ELSE IF method = "GET" /\ path = "/api/users" THEN <<"validateQuery", "listUsers">>
   ELSE IF method = "POST" /\ path = "/api/users" THEN <<"validateBody", "createUser">>
   ELSE <<>>) \o <<"notFound">>

\* the application's stack with cors registered ahead of the rate limiter
appStackCorsFirst(req) ==
  <<"cors", "rateLimit", "helmet", "json", "urlencoded", "hpp">>
    \o router(req.method, req.path) \o <<"errorHandler">>

\* the application's stack in the order of its app.use calls
appStack(req) ==
  <<"rateLimit", "helmet", "cors", "json", "urlencoded", "hpp">>
    \o router(req.method, req.path) \o <<"errorHandler">>

\* middleware taking (err, req, res, next)
ErrorStages == {"errorHandler"}

\* the keys of the JSON body errorHandler answers with
errorKeys(err, env) ==
  IF env = "production"
  THEN {"success", "error.message", "error.statusCode", "error.errorReferenceId"}
  ELSE {"success", "error.message", "error.name", "error.statusCode",
        "error.errorReferenceId", "error.details"}
         \cup (IF errorHandler(err, env).stack THEN {"error.stack"} ELSE {})

\* one middleware of the stack applied to a request; limited is the rate
\* limiter's verdict on the request
outcome(stage, req, limited) ==
  CASE stage = "rateLimit" ->
         IF limited THEN respond(429, {"status", "message"}) ELSE passOn
    [] stage = "helmet" -> passOn
    [] stage = "cors" ->
         IF originValidator(req.origin) # 0 THEN forward(corsFailure)
         ELSE IF req.method = "OPTIONS" THEN respond(204, {})
         ELSE passOn
    [] stage = "json" ->
         IF req.body = "malformed"
         THEN forward(CHOOSE f \in bodyParserFailures : f.statusCode = 400)
         ELSE IF req.body = "tooLarge"
         THEN forward(CHOOSE f \in bodyParserFailures : f.statusCode = 413)
         ELSE passOn
    [] stage = "urlencoded" -> passOn
    [] stage = "hpp" -> passOn
    [] stage = "validateQuery" -> passOn
    [] stage = "validateBody" ->
         IF req.body = "valid" THEN passOn
         ELSE IF req.body = "invalid" THEN forward(validator(1))
         ELSE forward(validator(3))
    [] stage = "health" -> respond(200, {"status", "uptime", "timestamp"})
    [] stage = "apiHealth" -> respond(200, {"status", "timestamp", "uptime"})
    [] stage = "listUsers" -> respond(200, {"success", "data"})
    [] stage = "createUser" -> respond(201, {"success", "message", "data"})
    [] stage = "notFound" -> respond(404, {"error", "message", "path", "method"})

\* Express walks the stack: while a failure is pending only error middleware
\* runs, otherwise only the other middleware; the walk ends at the first
\* answer. done lists the middleware that ran, failedAt the one that
\* forwarded the pending failure.
RECURSIVE dispatch(_, _, _, _, _, _)
dispatch(stack, req, limited, err, done, failedAt) ==
  IF stack = <<>>
  THEN [stages |-> done, failedAt |-> failedAt, responses |-> 1,
        resp |-> [by |-> "finalhandler", status |-> IF err = NoFailure THEN 404 ELSE 500,
                  keys |-> {}]]
  ELSE LET stage == Head(stack) IN
       IF (stage \in ErrorStages) # (err # NoFailure)
       THEN dispatch(Tail(stack), req, limited, err, done, failedAt)
       ELSE LET o == IF stage \in ErrorStages
                     THEN respond(getStatusCode(err), errorKeys(err, req.env))
                     ELSE outcome(stage, req, limited)
            IN IF o.kind = "next"
               THEN dispatch(Tail(stack), req, limited, err, Append(done, stage), failedAt)
               ELSE IF o.kind = "error"
               THEN dispatch(Tail(stack), req, limited, o.err, Append(done, stage), stage)
               ELSE [stages |-> Append(done, stage), failedAt |-> failedAt, responses |-> 1,
                     resp |-> [by |-> stage, status |-> o.status, keys |-> o.keys]]

\* one request goes through the stack; the rate limiter counts it first
pipeRequest(env, client, method, path, origin, body) ==
  LET req == [env |-> env, client |-> client, method |-> method, path |-> path,
              origin |-> origin, body |-> body]
      key == keyGenerator(client)
      limited == ~skip(path) /\ hitsAfter(key) > RateLimitMax
      r == dispatch(appStack(req), req, limited, NoFailure, <<>>, "-")
  IN /\ ~skip(path) => hits[key] <= RateLimitMax
     /\ hits' = IF skip(path) THEN hits ELSE [hits EXCEPT ![key] = hitsAfter(key)]
     /\ resetTime' = IF skip(path) THEN resetTime
                     ELSE [resetTime EXCEPT ![key] = resetAfter(key)]
     /\ pipeReq' = req
     /\ stages' = r.stages
     /\ pipeResp' = [by |-> r.resp.by, status |-> r.resp.status, keys |-> r.resp.keys,
                       failedAt |-> r.failedAt]
     /\ responses' = r.responses
     /\ UNCHANGED <<now, rlLog, appResp, robustVars, httpsVars, errVars, valVars>>

NextPipe ==
  \E env \in Envs, c \in PipeClients, m \in Methods, p \in PipePaths, o \in Origins, b \in PipeBodies :
     pipeRequest(env, c, m, p, o, b)

SpecPipe == Init /\ [][NextPipe]_vars

(***************************************************************************)
(* Properties of the middleware stack                                      *)
(***************************************************************************)
\* the 404 envelope: { success, error: { message, statusCode, path, method } }
NotFoundEnvelope ==
  {"success", "error.message", "error.statusCode", "error.path", "error.method"}

\* C21: the answer of the catch-all to a request whose path matches no defined
\* route is the 404 envelope { success: false, error: { message,
\* statusCode: 404, path, method } }, and the error formatter does not run.
C21_NotFoundEnvelope ==
  pipeResp.by = "notFound" =>
     /\ pipeResp.status = 404
     /\ pipeResp.keys = NotFoundEnvelope
     /\ "errorHandler" \notin {stages[i] : i \in DOMAIN stages}

\* the position of a middleware in the order rate limiter, security headers,
\* CORS, body parsing, parameter-pollution guard, schema validator, route
\* handler, error formatter
StageRank(stage) ==
  CASE stage = "rateLimit" -> 1
    [] stage = "helmet" -> 2
    [] stage = "cors" -> 3
    [] stage \in {"json", "urlencoded"} -> 4
    [] stage = "hpp" -> 5
    [] stage \in {"validateBody", "validateQuery"} -> 6
    [] stage \in {"health", "apiHealth", "listUsers", "createUser", "notFound"} -> 7
    [] stage = "errorHandler" -> 8

\* the stages a request goes through when nothing stops it
FullRun(req) == SelectSeq(appStack(req), LAMBDA st : st \notin ErrorStages /\ st # "notFound")

\* the sequence p is the beginning of the sequence q
IsPrefix(p, q) == Len(p) <= Len(q) /\ \A i \in DOMAIN p : p[i] = q[i]

====
